---- MODULE Spec2Model ----
(***************************************************************************)
(* Shortest-path engine (src/dijkstra.py) and metrics layer                *)
(* (src/metrics.py) of the multi-campus OSPF simulator.                    *)
(*                                                                         *)
(* find_shortest_path is modelled as a state machine with one step per     *)
(* iteration of its main loop; reconstruct_path, calculate_all_paths and   *)
(* calculate_network_metrics are pure functions of their arguments and are *)
(* modelled as operators applied by one action each.  A Python exception   *)
(* is an outcome of its own ("raised", "KeyError").  Dictionaries are      *)
(* functions: the iteration order of a dictionary changes no result, since *)
(* the heap orders its entries by (distance, name) and the relaxations of  *)
(* one iteration touch distinct neighbors.  The heap never holds an entry  *)
(* twice (an entry is pushed only with a distance strictly below every     *)
(* earlier one of its router), so it is kept as the set of its entries.    *)
(***************************************************************************)
EXTENDS Integers, Sequences, FiniteSets, TLC

VARIABLES
    graph,           \* self.graph: router -> (neighbor -> cost)
    start,           \* argument of find_shortest_path
    distances,       \* local of find_shortest_path
    previous,        \* local of find_shortest_path
    priority_queue,  \* heap of (distance, router), kept as the set of its entries
    visited,         \* local of find_shortest_path
    iteration,       \* local of find_shortest_path
    pc,              \* "constructed" | "loop" | "done" | "raised" | "reconstructed" | "idle"
    end,             \* argument of reconstruct_path
    result,          \* what reconstruct_path produced
    topology,        \* argument of calculate_network_metrics
    metrics,         \* what calculate_network_metrics produced
    mpc              \* "idle" | "ready" | "returned" | "raised"

vars == <<graph, start, distances, previous, priority_queue, visited,
          iteration, pc, end, result, topology, metrics, mpc>>

----------------------------------------------------------------------------
(* Bounds and program constants *)

\* largest edge weight of the generated topologies
MaxWeight == 2

\* float('infinity'): above every finite path cost the model can produce
Infinity == 1000000

\* Python's None
None == "None"

DefaultCost == 64
DefaultDistanceKm == 50
DefaultBandwidthMbps == 1000

\* Router names in Python's string order; heap entries are (distance, name)
\* tuples, so equal distances are ordered by name.
NodeOrder == <<"A", "B", "C", "D", "R0", "R1", "R10", "R11", "R2", "R3", "R4",
               "R5", "R6", "R7", "R8", "R9">>

Rank(n) == CHOOSE i \in 1..Len(NodeOrder) : NodeOrder[i] = n

\* names the generated topologies are built from
Universe == {"A", "B", "C"}

\* edge weights of the generated topologies: one negative value, zero, and
\* the positive values up to MaxWeight
Weights == {-1} \cup (0..MaxWeight)

----------------------------------------------------------------------------
(* Graph helpers *)

\* routers = list(graph.keys())
Routers(g) == DOMAIN g

Neighbors(g, n) == IF n \in DOMAIN g THEN DOMAIN g[n] ELSE {}

\* every neighbor is also a key
WellFormed(g) == \A n \in DOMAIN g : DOMAIN g[n] \subseteq DOMAIN g

NonNegative(g) == \A n \in DOMAIN g : \A m \in DOMAIN g[n] : g[n][m] >= 0

HasNegativeEdge(g) == ~NonNegative(g)

\* every name a run from s can touch
AllNodes(g, s) == DOMAIN g \cup UNION {DOMAIN g[n] : n \in DOMAIN g} \cup {s}

SetMin(S) == CHOOSE x \in S : \A y \in S : x <= y

\* one Bellman-Ford round: every node keeps the lesser of its cost and the
\* cost through any arc into it
BFRound(g, d) ==
    [n \in DOMAIN d |->
        SetMin({d[n]} \cup
               {d[m] + g[m][n] :
                  m \in {x \in DOMAIN g : n \in DOMAIN g[x] /\ d[x] < Infinity}})]

\* k rounds from d, stopping early at a fixed point
RECURSIVE BFRounds(_, _, _)
BFRounds(g, d, k) ==
    LET nd == BFRound(g, d)
    IN  IF k = 0 \/ nd = d THEN d ELSE BFRounds(g, nd, k - 1)

\* Reference shortest-path costs, by Bellman-Ford rounds: BF(g, s, k)[n] is the
\* least total weight of a directed walk from s to n of at most k edges.
BF(g, s, k) ==
    BFRounds(g, [n \in AllNodes(g, s) |-> IF n = s THEN 0 ELSE Infinity], k)

\* least cost over directed paths (a simple path has fewer edges than nodes)
ShortestCost(g, s) == BF(g, s, Cardinality(AllNodes(g, s)) - 1)

\* one more round lowers nothing: no negative cycle is reachable from s
NoNegativeCycle(g, s) ==
    BF(g, s, Cardinality(AllNodes(g, s))) = ShortestCost(g, s)

----------------------------------------------------------------------------
(* find_shortest_path *)

\* mutant of LoopInit: every router starts as its own predecessor
LoopInitSelfPredecessor(g, s) ==
    [distances      |-> [n \in Routers(g) \cup {s} |-> IF n = s THEN 0 ELSE Infinity],
     previous       |-> [n \in Routers(g) |-> n],
     priority_queue |-> {<<0, s>>},
     visited        |-> {},
     iteration      |-> 1,
     pc             |-> "loop"]

\* lines 46-54: the locals before the main loop
LoopInit(g, s) ==
    [distances      |-> [n \in Routers(g) \cup {s} |-> IF n = s THEN 0 ELSE Infinity],
     previous       |-> [n \in Routers(g) |-> None],
     priority_queue |-> {<<0, s>>},
     visited        |-> {},
     iteration      |-> 1,
     pc             |-> "loop"]

\* tuple order of heap entries: distance first, then name
EntryLess(a, b) == a[1] < b[1] \/ (a[1] = b[1] /\ Rank(a[2]) < Rank(b[2]))

\* mutant of HeapMin: the largest entry is popped
HeapMax(q) == CHOOSE e \in q : \A f \in q : f = e \/ EntryLess(f, e)

\* heapq.heappop: the smallest entry
HeapMin(q) == CHOOSE e \in q : \A f \in q : f = e \/ EntryLess(e, f)

\* mutant of Improves: the comparison is lost and every candidate is taken
ImprovesAlways(new_distance, old_distance) == TRUE

\* line 84
Improves(new_distance, old_distance) == new_distance < old_distance

\* mutant of AlreadyVisited: stale entries are not skipped
NeverVisited(router, vis) == FALSE

\* line 61
AlreadyVisited(router, vis) == router \in vis

\* line 74: the neighbors the inner loop relaxes
Relaxable(g, router, vis) == {n \in Neighbors(g, router) : n \notin vis}

\* lines 57-98: one iteration of the main loop from the locals st (st.pc = "loop")
Step(g, st) ==
    IF st.priority_queue = {}
    THEN [st EXCEPT !.pc = "done"]
    ELSE
    LET entry            == HeapMin(st.priority_queue)
        current_distance == entry[1]
        current_router   == entry[2]
        queue            == st.priority_queue \ {entry}
    IN  IF AlreadyVisited(current_router, st.visited)
        THEN [st EXCEPT !.priority_queue = queue]
        ELSE
        LET vis      == st.visited \cup {current_router}
            nbrs     == Relaxable(g, current_router, vis)
            new(n)   == current_distance + g[current_router][n]
        IN  IF \E n \in nbrs : n \notin DOMAIN st.distances
            THEN [st EXCEPT !.pc = "raised"]
            ELSE
            LET better == {n \in nbrs : Improves(new(n), st.distances[n])}
            IN  [distances      |-> [n \in DOMAIN st.distances |->
                                       IF n \in better THEN new(n) ELSE st.distances[n]],
                 previous       |-> [n \in DOMAIN st.previous |->
                                       IF n \in better THEN current_router
                                       ELSE st.previous[n]],
                 priority_queue |-> queue \cup {<<new(n), n>> : n \in better},
                 visited        |-> vis,
                 iteration      |-> st.iteration + 1,
                 pc             |-> "loop"]

\* the whole call, for callers that only use what it returns
RECURSIVE RunLoop(_, _)
RunLoop(g, st) == IF st.pc = "loop" THEN RunLoop(g, Step(g, st)) ELSE st

find_shortest_path(g, s) == RunLoop(g, LoopInit(g, s))

----------------------------------------------------------------------------
(* reconstruct_path *)

\* mutant of Walk: the node is appended, not inserted at the front
RECURSIVE WalkAppend(_, _, _)
WalkAppend(prev, current, path) ==
    IF current = None THEN [status |-> "ok", path |-> path]
    ELSE IF current \notin DOMAIN prev THEN [status |-> "KeyError", path |-> <<>>]
    ELSE IF Len(path) > Cardinality(DOMAIN prev) THEN [status |-> "Diverges", path |-> <<>>]
    ELSE WalkAppend(prev, prev[current], path \o <<current>>)

\* lines 117-119: the backward walk.  KeyError when previous has no entry for
\* current; a walk longer than the map has entries is in a cycle and never ends.
RECURSIVE Walk(_, _, _)
Walk(prev, current, path) ==
    IF current = None THEN [status |-> "ok", path |-> path]
    ELSE IF current \notin DOMAIN prev THEN [status |-> "KeyError", path |-> <<>>]
    ELSE IF Len(path) > Cardinality(DOMAIN prev) THEN [status |-> "Diverges", path |-> <<>>]
    ELSE Walk(prev, prev[current], <<current>> \o path)

\* mutant of reconstruct_path: the walk is returned without the check that it
\* ended at the source
reconstruct_path_unchecked(prev, s, e) == Walk(prev, e, <<>>)

\* lines 114-124
reconstruct_path(prev, s, e) ==
    LET w == Walk(prev, e, <<>>)
    IN  IF w.status # "ok" THEN w
        ELSE IF w.path[1] # s THEN [status |-> "None", path |-> <<>>]
        ELSE w

----------------------------------------------------------------------------
(* Inputs *)

\* neighbor maps of router n in the generated topologies
NeighborMaps(n) ==
    UNION {[S -> Weights] : S \in SUBSET (Universe \ {n})}

GeneratedGraphs ==
    UNION {{g \in [K -> UNION {NeighborMaps(n) : n \in K}] :
               \A n \in K : n \notin DOMAIN g[n]} : K \in SUBSET Universe}

\* test_dijkstra's topology
TestGraph ==
    [A |-> [B |-> 4, C |-> 2],
     B |-> [A |-> 4, C |-> 1, D |-> 5],
     C |-> [A |-> 2, B |-> 1, D |-> 8],
     D |-> [B |-> 5, C |-> 8]]

\* the disconnected topology whose neighbors are not keys
DisconnectedGraph == [A |-> [B |-> 1], C |-> [D |-> 1]]

Graphs == GeneratedGraphs \cup {TestGraph, DisconnectedGraph}

Starts(g) == Universe \cup DOMAIN g

Ends(g) == Universe \cup DOMAIN g

NoResult == [status |-> "none", path |-> <<>>]

----------------------------------------------------------------------------
(* Engine specification *)

\* __init__ (lines 23-24): the object holds the topology; nothing has run yet
Init ==
    /\ graph \in Graphs
    /\ start = None
    /\ distances = <<>>
    /\ previous = <<>>
    /\ priority_queue = {}
    /\ visited = {}
    /\ iteration = 0
    /\ pc = "constructed"
    /\ end = None
    /\ result = NoResult
    /\ topology = <<>>
    /\ metrics = <<>>
    /\ mpc = "idle"

Locals ==
    [distances |-> distances, previous |-> previous,
     priority_queue |-> priority_queue, visited |-> visited,
     iteration |-> iteration, pc |-> pc]

SetLocals(st) ==
    /\ distances' = st.distances
    /\ previous' = st.previous
    /\ priority_queue' = st.priority_queue
    /\ visited' = st.visited
    /\ iteration' = st.iteration
    /\ pc' = st.pc

\* find_shortest_path(s) is called: lines 46-54
FindShortestPath ==
    /\ pc = "constructed"
    /\ \E s \in Starts(graph) :
          /\ start' = s
          /\ SetLocals(LoopInit(graph, s))
    /\ UNCHANGED <<graph, end, result, topology, metrics, mpc>>

\* lines 57-64, 71-98: an entry of an unvisited router is popped and relaxed
Visit ==
    /\ pc = "loop"
    /\ priority_queue # {}
    /\ ~AlreadyVisited(HeapMin(priority_queue)[2], visited)
    /\ Step(graph, Locals).pc = "loop"
    /\ SetLocals(Step(graph, Locals))
    /\ UNCHANGED <<graph, start, end, result, topology, metrics, mpc>>

\* lines 57-62: a stale entry is popped and dropped
SkipStale ==
    /\ pc = "loop"
    /\ priority_queue # {}
    /\ AlreadyVisited(HeapMin(priority_queue)[2], visited)
    /\ SetLocals(Step(graph, Locals))
    /\ UNCHANGED <<graph, start, end, result, topology, metrics, mpc>>

\* line 84 (line 80 when verbose): distances has no entry for a neighbor
RaiseKeyError ==
    /\ pc = "loop"
    /\ priority_queue # {}
    /\ Step(graph, Locals).pc = "raised"
    /\ pc' = "raised"
    /\ UNCHANGED <<graph, start, distances, previous, priority_queue, visited,
                   iteration, end, result, topology, metrics, mpc>>

\* lines 57, 100: the frontier is empty
Return ==
    /\ pc = "loop"
    /\ priority_queue = {}
    /\ pc' = "done"
    /\ UNCHANGED <<graph, start, distances, previous, priority_queue, visited,
                   iteration, end, result, topology, metrics, mpc>>

\* reconstruct_path(previous, start, e) on what find_shortest_path returned
ReconstructPath ==
    /\ pc = "done"
    /\ \E e \in Ends(graph) :
          /\ end' = e
          /\ result' = reconstruct_path(previous, start, e)
    /\ pc' = "reconstructed"
    /\ UNCHANGED <<graph, start, distances, previous, priority_queue, visited,
                   iteration, topology, metrics, mpc>>

Next == FindShortestPath \/ Visit \/ SkipStale \/ RaiseKeyError \/ Return \/ ReconstructPath

Spec == Init /\ [][Next]_vars

\* the loop runs to its end whenever it can take a step
----------------------------------------------------------------------------
(* calculate_all_paths *)

\* lines 133-150.  An exception of any call is the exception of the whole.
calculate_all_paths(g) ==
    LET run(router) == find_shortest_path(g, router)
        paths(router) ==
            [dest \in Routers(g) \ {router} |->
                reconstruct_path(run(router).previous, router, dest)]
    IN  IF \E router \in Routers(g) : run(router).pc = "raised"
        THEN [status |-> "KeyError", routes |-> <<>>]
        ELSE IF \E router \in Routers(g) : \E dest \in Routers(g) \ {router} :
                    paths(router)[dest].status \in {"KeyError", "Diverges"}
        THEN [status |-> "KeyError", routes |-> <<>>]
        ELSE [status |-> "ok",
              routes |-> [router \in Routers(g) |->
                            [distances |-> run(router).distances,
                             previous  |-> run(router).previous,
                             paths     |-> paths(router)]]]

----------------------------------------------------------------------------
(* calculate_network_metrics *)

\* dict.get(key, default) on an attribute map
Get(attrs, key, default) == IF key \in DOMAIN attrs THEN attrs[key] ELSE default

\* line 61
DefaultAttrs ==
    [cost |-> DefaultCost, distance_km |-> DefaultDistanceKm,
     bandwidth_mbps |-> DefaultBandwidthMbps]

\* the integers that stand as edge values of a simple topology
IntCosts == Weights \cup {DefaultCost}

\* v is a Python int: it prints as one (a dict never does)
IsInt(v) == ToString(v) \in {ToString(i) : i \in IntCosts}

\* line 33: `attrs.get` raises AttributeError when some edge value is an
\* int, which has no `get`
GetRaises(topo) ==
    \E node \in DOMAIN topo : \E nbr \in DOMAIN topo[node] : IsInt(topo[node][nbr])

\* lines 29-34
weights_graph(topo) ==
    [node \in DOMAIN topo |->
        [nbr \in DOMAIN topo[node] |-> Get(topo[node][nbr], "cost", DefaultCost)]]

\* line 58: the hop (a, b) is no forward arc of the topology
FallbackTaken(topo, a, b) == a \notin DOMAIN topo \/ b \notin DOMAIN topo[a]

\* lines 58-63: forward arc, else reverse arc, else the defaults (None and an
\* empty map are both falsy)
ResolveAttrs(topo, a, b) ==
    IF FallbackTaken(topo, a, b)
    THEN LET reverse == IF b \in DOMAIN topo /\ a \in DOMAIN topo[b]
                        THEN topo[b][a] ELSE <<>>
         IN  IF DOMAIN reverse = {} THEN DefaultAttrs ELSE reverse
    ELSE topo[a][b]

\* line 67
HopBandwidth(attrs) == Get(attrs, "bandwidth_mbps", DefaultBandwidthMbps)

\* line 66
HopDistance(attrs) == Get(attrs, "distance_km", DefaultDistanceKm)

\* mutant of HopCost: a missing cost counts as nothing
HopCostZeroDefault(attrs) == Get(attrs, "cost", 0)

\* line 65
HopCost(attrs) == Get(attrs, "cost", DefaultCost)

RECURSIVE SumSeq(_)
SumSeq(q) == IF Len(q) = 0 THEN 0 ELSE Head(q) + SumSeq(Tail(q))

\* lines 50-93: the entry of one route.  path_distances_km and fallback_hops
\* record what the hop loop read (d_km of each hop, the hops that took the
\* fallback branch); the delay and throughput fields, floating-point
\* functions of the fields kept here, are left out.
RouteMetrics(topo, path) ==
    LET n == Len(path) - 1
        attrs(i) == ResolveAttrs(topo, path[i], path[i + 1])
    IN  [path_list            |-> path,
         hops                 |-> IF n > 0 THEN n ELSE 0,
         ospf_cost            |-> SumSeq([i \in 1..n |-> HopCost(attrs(i))]),
         path_bandwidths_mbps |-> [i \in 1..n |-> HopBandwidth(attrs(i))],
         path_distances_km    |-> [i \in 1..n |-> HopDistance(attrs(i))],
         fallback_hops        |-> {i \in 1..n : FallbackTaken(topo, path[i], path[i + 1])}]

\* line 47: `if not path: continue`
Reported(route) == route.status = "ok" /\ Len(route.path) > 0

\* lines 28-95
calculate_network_metrics(topo) ==
    LET all_routes == calculate_all_paths(weights_graph(topo))
    IN  IF GetRaises(topo)
        THEN [status |-> "AttributeError", metrics |-> <<>>]
        ELSE IF all_routes.status # "ok"
        THEN [status |-> all_routes.status, metrics |-> <<>>]
        ELSE [status |-> "ok",
              metrics |->
                [src \in DOMAIN topo |->
                   LET paths == all_routes.routes[src].paths
                       dsts  == {dst \in DOMAIN topo \ {src} : Reported(paths[dst])}
                   IN  [dst \in dsts |-> RouteMetrics(topo, paths[dst].path)]]]

----------------------------------------------------------------------------
(* Metrics inputs and specification *)

\* attribute maps of the generated topologies: nothing at all, cost only
\* (the default cost and another), and a full map
AttrMaps ==
    {<<>>,
     [cost |-> DefaultCost],
     [cost |-> 1],
     [cost |-> MaxWeight, distance_km |-> 10, bandwidth_mbps |-> 100]}

AttrNeighborMaps(n) ==
    UNION {[S -> AttrMaps] : S \in SUBSET (Universe \ {n})}

GeneratedTopologies ==
    UNION {{t \in [K -> UNION {AttrNeighborMaps(n) : n \in K}] :
               \A n \in K : n \notin DOMAIN t[n]} : K \in SUBSET Universe}

\* NETWORK_TOPOLOGY of src/ospf_simulator.py: the simple form, every edge
\* value the integer cost
NetworkTopology ==
    [R0  |-> [R6 |-> 64],
     R1  |-> [R7 |-> 64],
     R2  |-> [R8 |-> 64],
     R3  |-> [R9 |-> 64],
     R4  |-> [R10 |-> 64],
     R5  |-> [R11 |-> 64],
     R6  |-> [R0 |-> 64, R7 |-> 64],
     R7  |-> [R6 |-> 64, R8 |-> 64, R9 |-> 64, R1 |-> 64],
     R8  |-> [R7 |-> 64, R9 |-> 64, R2 |-> 64],
     R9  |-> [R8 |-> 64, R10 |-> 64, R3 |-> 64, R7 |-> 64],
     R10 |-> [R9 |-> 64, R11 |-> 64, R4 |-> 64],
     R11 |-> [R10 |-> 64, R5 |-> 64]]

\* line 196: the bandwidth 1.544 (Mbit/s), held as the fraction 1544/1000
T1BandwidthMbps == [num |-> 1544, den |-> 1000]

\* lines 188-198: every integer cost becomes a full attribute map
convert_simple_to_full(simple_topology) ==
    [a \in DOMAIN simple_topology |->
        [b \in DOMAIN simple_topology[a] |->
            [cost           |-> simple_topology[a][b],
             distance_km    |-> 50,
             bandwidth_mbps |-> T1BandwidthMbps]]]

\* the topologies calculate_network_metrics is called on: the generated
\* ones, NETWORK_TOPOLOGY as it stands, and NETWORK_TOPOLOGY converted (lines
\* 200-203)
MetricsInit ==
    /\ \/ topology \in GeneratedTopologies
       \/ topology = NetworkTopology
       \/ topology = convert_simple_to_full(NetworkTopology)
    /\ metrics = <<>>
    /\ mpc = "ready"
    /\ graph = <<>>
    /\ start = None
    /\ distances = <<>>
    /\ previous = <<>>
    /\ priority_queue = {}
    /\ visited = {}
    /\ iteration = 0
    /\ pc = "idle"
    /\ end = None
    /\ result = NoResult

\* calculate_network_metrics(topology) returns
MetricsReturn ==
    /\ mpc = "ready"
    /\ calculate_network_metrics(topology).status = "ok"
    /\ metrics' = calculate_network_metrics(topology).metrics
    /\ mpc' = "returned"
    /\ UNCHANGED <<graph, start, distances, previous, priority_queue, visited,
                   iteration, pc, end, result, topology>>

\* calculate_network_metrics(topology) raises
MetricsRaise ==
    /\ mpc = "ready"
    /\ calculate_network_metrics(topology).status # "ok"
    /\ mpc' = "raised"
    /\ UNCHANGED <<graph, start, distances, previous, priority_queue, visited,
                   iteration, pc, end, result, topology, metrics>>

MetricsNext == MetricsReturn \/ MetricsRaise

MetricsSpec == MetricsInit /\ [][MetricsNext]_vars

\* weights of the topologies the loop's termination is checked on: zero (for
\* zero-weight edges and cycles) and the largest weight
FairWeights == {0, MaxWeight}

FairInit ==
    /\ Init
    /\ \A n \in DOMAIN graph : \A m \in DOMAIN graph[n] : graph[n][m] \in FairWeights

\* find_shortest_path alone: once called, the sequential loop takes its next
\* step until it returns or raises (the caller may never call anything else)
LoopNext == FindShortestPath \/ Visit \/ SkipStale \/ RaiseKeyError \/ Return

FairSpec == FairInit /\ [][LoopNext]_vars /\ WF_vars(LoopNext)

----------------------------------------------------------------------------
(* Vocabulary of the properties *)

\* nodes joined to s by a directed path (s itself included)
RECURSIVE ReachFrom(_, _)
ReachFrom(g, S) ==
    LET T == S \cup UNION {Neighbors(g, n) : n \in S}
    IN  IF T = S THEN S ELSE ReachFrom(g, T)

Reachable(g, s) == ReachFrom(g, {s})

\* sum of the edge weights along a node sequence whose hops are edges of g
RECURSIVE PathCost(_, _)
PathCost(g, p) ==
    IF Len(p) < 2 THEN 0 ELSE g[p[1]][p[2]] + PathCost(g, Tail(p))

IsPathOf(g, p) ==
    \A i \in 1..(Len(p) - 1) : p[i] \in DOMAIN g /\ p[i + 1] \in DOMAIN g[p[i]]

\* the preconditions of the engine's contract
Contract ==
    /\ pc \notin {"constructed", "idle"}
    /\ WellFormed(graph)
    /\ NonNegative(graph)
    /\ start \in DOMAIN graph

Returned == pc \in {"done", "reconstructed"}

----------------------------------------------------------------------------
(* Properties *)

\* C1: on a well-formed topology with non-negative weights and a source that
\* is a key, the distances find_shortest_path returns are the least path
\* costs from the source: 0 for the source, infinity exactly for the nodes no
\* directed path reaches; on test_dijkstra's topology from A they are
\* A:0, B:3, C:2, D:8.
C1_DistancesAreShortest ==
    (Returned /\ Contract) =>
        /\ DOMAIN distances = DOMAIN graph
        /\ distances = ShortestCost(graph, start)
        /\ distances[start] = 0
        /\ \A n \in DOMAIN graph :
              (distances[n] = Infinity) <=> (n \notin Reachable(graph, start))
        /\ (graph = TestGraph /\ start = "A") =>
              distances = [A |-> 0, B |-> 3, C |-> 2, D |-> 8]

C1_Witness ==
    /\ pc = "done"
    /\ graph = TestGraph
    /\ start = "A"
    /\ distances["B"] = 3
    /\ distances["D"] = 8

\* C2: for a destination reachable from the source (well-formed topology,
\* non-negative weights) the reconstructed path starts at the source, ends at
\* the destination, follows directed edges of the graph, and its edge
\* weights sum to distances[destination].
C2_PathRealisesDistance ==
    (pc = "reconstructed" /\ Contract /\ end \in Reachable(graph, start)) =>
        /\ result.status = "ok"
        /\ Len(result.path) >= 1
        /\ result.path[1] = start
        /\ result.path[Len(result.path)] = end
        /\ IsPathOf(graph, result.path)
        /\ PathCost(graph, result.path) = distances[end]

C2_Witness ==
    /\ pc = "reconstructed"
    /\ graph = TestGraph
    /\ start = "A"
    /\ end = "D"
    /\ result.path = <<"A", "C", "B", "D">>

\* C3: on a well-formed topology, for a source and a destination that are
\* keys, reconstruct_path never raises, returns None exactly when
\* distances[destination] is infinite, and returns [source] when the
\* destination is the source.
C3_NonePathIffInfinite ==
    (pc = "reconstructed" /\ WellFormed(graph) /\ start \in DOMAIN graph
       /\ end \in DOMAIN graph) =>
        /\ result.status \in {"ok", "None"}
        /\ (result.status = "None") <=> (distances[end] = Infinity)
        /\ (end = start) => (result.status = "ok" /\ result.path = <<start>>)

C3_Witness ==
    /\ pc = "reconstructed"
    /\ WellFormed(graph)
    /\ start \in DOMAIN graph
    /\ end \in DOMAIN graph
    /\ end # start
    /\ result.status = "None"
    /\ distances[end] = Infinity
    /\ \E n \in DOMAIN graph : n # start /\ distances[n] < Infinity

\* C4: on the disconnected topology {A:{B:1}, C:{D:1}}, find_shortest_path(A)
\* completes with distance[C] and distance[D] infinite, and reconstruct_path
\* to C returns None.
C4_DisconnectedCompletes ==
    (graph = DisconnectedGraph /\ start = "A") =>
        /\ pc # "raised"
        /\ Returned =>
              /\ {"C", "D"} \subseteq DOMAIN distances
              /\ distances["C"] = Infinity
              /\ distances["D"] = Infinity
        /\ (pc = "reconstructed" /\ end = "C") => result.status = "None"

\* C5: a source that is not a node of the topology is rejected: no result is
\* returned in which it has distance 0; and reconstruct_path to a destination
\* that is not a node of the topology ends in an error, not a path.
C5_AbsentNodeRejected ==
    /\ (start \notin DOMAIN graph) =>
          ~(Returned /\ start \in DOMAIN distances /\ distances[start] = 0)
    /\ (pc = "reconstructed" /\ end \notin DOMAIN graph) =>
          result.status \notin {"ok", "None"}

\* C8: a topology with a negative edge weight is rejected: the engine never
\* returns normally with distances that differ from the least path costs.
C8_NegativeWeightRejected ==
    (HasNegativeEdge(graph) /\ WellFormed(graph) /\ start \in DOMAIN graph
       /\ NoNegativeCycle(graph, start)) =>
        ~(Returned /\ distances # ShortestCost(graph, start))

\* C9: on a well-formed topology with non-negative weights the main loop
\* empties the frontier and returns; every pass that is not skipped adds a new
\* node to visited (so no node is visited, or has its edges relaxed, twice),
\* and popping an entry of a visited node changes neither distances nor
\* predecessors nor visited.
C9_LoopTerminatesVisitingOnce ==
    /\ [][Contract' => iteration' = Cardinality(visited') + 1]_vars
    /\ [][(Contract /\ pc = "loop" /\ priority_queue # {}
             /\ HeapMin(priority_queue)[2] \in visited) =>
            (/\ distances' = distances
             /\ previous' = previous
             /\ visited' = visited
             /\ iteration' = iteration
             /\ priority_queue' = priority_queue \ {HeapMin(priority_queue)})]_vars
    /\ [][(Contract /\ pc = "loop" /\ visited' # visited) =>
            (\E n \in DOMAIN graph :
                /\ n \notin visited
                /\ visited' = visited \cup {n}
                /\ iteration' = iteration + 1)]_vars
    /\ ((Contract /\ pc = "loop") ~> (pc = "done" /\ priority_queue = {}))

\* a stale entry is about to be popped, all nodes visited, on a topology with
\* a zero-weight cycle through the source
C9_Witness ==
    /\ pc = "loop"
    /\ Contract
    /\ priority_queue # {}
    /\ HeapMin(priority_queue)[2] \in visited
    /\ iteration = Cardinality(visited) + 1
    /\ visited = DOMAIN graph
    /\ Cardinality(visited) = 3
    /\ \E n \in DOMAIN graph \ {start} :
          /\ n \in DOMAIN graph[start] /\ graph[start][n] = 0
          /\ start \in DOMAIN graph[n] /\ graph[n][start] = 0

\* C10: with non-negative weights no step raises a distance, a visited node's
\* distance and predecessor never change, and a node is added to visited by
\* popping the entry (distances[node], node), distances[node] being already
\* the least path cost.
C10_DistancesSettle ==
    [][(NonNegative(graph) /\ pc = "loop") =>
         (/\ DOMAIN distances' = DOMAIN distances
          /\ \A n \in DOMAIN distances :
                /\ distances'[n] <= distances[n]
                /\ (n \in visited) => distances'[n] = distances[n]
                /\ (n \in visited /\ n \in DOMAIN previous) =>
                      previous'[n] = previous[n]
                /\ (n \in visited' \ visited) =>
                      /\ HeapMin(priority_queue) = <<distances[n], n>>
                      /\ distances'[n] = distances[n]
                      /\ distances[n] = ShortestCost(graph, start)[n])]_vars

C10_Witness ==
    /\ pc = "loop"
    /\ NonNegative(graph)
    /\ Cardinality(visited) >= 2
    /\ \E n \in DOMAIN distances \ visited :
          /\ distances[n] < Infinity
          /\ previous[n] # start
          /\ \E e \in priority_queue : e[2] = n /\ e[1] > distances[n]

\* edge entries that carry no attribute beyond cost: the bare cost, or an
\* attribute map with at most a cost
CostOnly(topo) ==
    \A a \in DOMAIN topo : \A b \in DOMAIN topo[a] :
        IsInt(topo[a][b]) \/ DOMAIN topo[a][b] \subseteq {"cost"}

AllEqual(q, v) == \A i \in 1..Len(q) : q[i] = v

\* C6: every ordered pair of distinct nodes whose destination is unreachable
\* has an entry in the result of calculate_network_metrics (and a well-formed
\* topology of attribute maps does not make the call raise).
C6_UnreachablePairHasEntry ==
    /\ (WellFormed(topology) /\ ~GetRaises(topology)) => mpc # "raised"
    /\ (mpc = "returned") =>
          \A src \in DOMAIN topology : \A dst \in DOMAIN topology \ {src} :
             (dst \notin Reachable(weights_graph(topology), src)) =>
                 dst \in DOMAIN metrics[src]

\* C7 as stated: on a topology whose edges carry no attribute beyond cost
\* (the 12-node topology with cost 64 on every edge among them) the call
\* never fails, every hop of every reported route uses distance 50 and
\* bandwidth 1000, and every reported ospf_cost is a multiple of 64.
C7_CostOnlyCostMultipleOf64 ==
    (CostOnly(topology) /\ WellFormed(topology)) =>
        /\ mpc # "raised"
        /\ (mpc = "returned") =>
              \A src \in DOMAIN metrics : \A dst \in DOMAIN metrics[src] :
                  /\ AllEqual(metrics[src][dst].path_bandwidths_mbps, DefaultBandwidthMbps)
                  /\ AllEqual(metrics[src][dst].path_distances_km, DefaultDistanceKm)
                  /\ metrics[src][dst].ospf_cost % 64 = 0

\* following prev from n meets no node of seen again and ends at a node
\* without predecessor
RECURSIVE ChainEnds(_, _, _)
ChainEnds(prev, n, seen) ==
    IF n \notin DOMAIN prev THEN FALSE
    ELSE IF prev[n] = None THEN TRUE
    ELSE IF prev[n] \in seen THEN FALSE
    ELSE ChainEnds(prev, prev[n], seen \cup {prev[n]})

NoRepeats(q) == \A i \in 1..Len(q) : \A j \in 1..Len(q) : (q[i] = q[j]) => (i = j)

\* C11: in every state of a run on a well-formed topology with non-negative
\* weights the predecessor map is acyclic: the source and every node at
\* infinite distance have no predecessor, and the chain of predecessors from
\* any node ends, without repeating a node, at a node without predecessor; so
\* the backward walk of reconstruct_path ends for every destination key, and
\* a returned path repeats no node.
C11_PredecessorsAcyclic ==
    (Contract /\ pc \in {"loop", "done", "reconstructed"}) =>
        /\ DOMAIN previous = DOMAIN graph
        /\ previous[start] = None
        /\ \A n \in DOMAIN previous :
              /\ (distances[n] = Infinity) => (previous[n] = None)
              /\ ChainEnds(previous, n, {n})
              /\ Walk(previous, n, <<>>).status = "ok"
              /\ NoRepeats(Walk(previous, n, <<>>).path)
              /\ reconstruct_path(previous, start, n).status \in {"ok", "None"}
        /\ (pc = "reconstructed" /\ end \in DOMAIN graph) =>
              /\ result.status \in {"ok", "None"}
              /\ NoRepeats(result.path)

\* a three-node path was returned on a topology whose three nodes lie on a
\* zero-weight cycle
C11_Witness ==
    /\ pc = "reconstructed"
    /\ Contract
    /\ result.status = "ok"
    /\ Len(result.path) = 3
    /\ NoRepeats(result.path)
    /\ \A i \in 1..2 : graph[result.path[i]][result.path[i + 1]] = 0
    /\ start \in DOMAIN graph[end]
    /\ graph[end][start] = 0

\* C12: for every well-formed attributed topology with non-negative costs and
\* every pair with an entry in the result of calculate_network_metrics, each
\* hop of the reported path is a forward arc of the topology, the fallback
\* branch is taken for no hop, the reported ospf_cost is the distance the
\* engine computes from src to dst on the cost-projected graph (which is the
\* shortest one), and hops = len(path) - 1 >= 1.
C12_ReportedCostIsShortest ==
    (mpc = "returned" /\ WellFormed(topology)) =>
        \A src \in DOMAIN metrics : \A dst \in DOMAIN metrics[src] :
            LET e == metrics[src][dst]
                g == weights_graph(topology)
            IN  /\ src # dst
                /\ e.path_list[1] = src
                /\ e.path_list[Len(e.path_list)] = dst
                /\ \A i \in 1..(Len(e.path_list) - 1) :
                      /\ e.path_list[i] \in DOMAIN topology
                      /\ e.path_list[i + 1] \in DOMAIN topology[e.path_list[i]]
                /\ e.fallback_hops = {}
                /\ e.ospf_cost = PathCost(g, e.path_list)
                /\ e.ospf_cost = find_shortest_path(g, src).distances[dst]
                /\ e.ospf_cost = ShortestCost(g, src)[dst]
                /\ e.hops = Len(e.path_list) - 1
                /\ e.hops >= 1

\* a two-hop route was reported whose first hop carries no cost (counted as
\* the default) and whose second hop carries a full attribute map
C12_Witness ==
    /\ mpc = "returned"
    /\ WellFormed(topology)
    /\ \E src \in DOMAIN metrics : \E dst \in DOMAIN metrics[src] :
          LET e == metrics[src][dst]
          IN  /\ e.hops = 2
              /\ topology[e.path_list[1]][e.path_list[2]] = <<>>
              /\ "distance_km" \in DOMAIN topology[e.path_list[2]][e.path_list[3]]
              /\ e.ospf_cost = DefaultCost + MaxWeight

====
